---------------------------- MODULE Spec2Model ----------------------------
(***************************************************************************)
(* Model of the search endpoint of postgres-server                        *)
(* (internal/handler/query.go): the term tokenizer prepareSearchTerms,    *)
(* the two MakeQueryHandler variants (generic and ranking), the query     *)
(* they build, and the storage behaviour (ILIKE filter, ORDER BY, LIMIT,  *)
(* context deadline, row cursor) the handlers rely on.                    *)
(*                                                                         *)
(* Text is modelled as a sequence of characters; a character is a         *)
(* one-character string, or a named atom for a non-ASCII code point.      *)
(***************************************************************************)
EXTENDS Integers, Sequences, FiniteSets, TLC

VARIABLES
    variant,    \* which MakeQueryHandler is mounted: "generic" or "ranking"
    table,      \* contents of the storage tables: model name -> set of rows
    req,        \* the inbound request being handled
    pc,         \* position of the handler run
    terms,      \* result of prepareSearchTerms(req.queryText)
    query,      \* the statement handed to db.QueryContext
    args,       \* its positional argument list
    ctx,        \* state of the query context: "live", "deadline", "client"
    cursor,     \* rows the open result cursor has still to deliver
    rowsOpen,   \* TRUE while the sql.Rows cursor is open
    dbRunning,  \* TRUE while storage works on this request's query
    dbCalls,    \* number of db.QueryContext calls made for this request
    results,    \* the handler's local `results` slice
    dbErr,      \* the storage failure the run met: "none", "query", "columns", "scan", "iter"
    resp,       \* the response written to the client
    prev,       \* the response the same request got on its previous run
    round       \* how many times the current request was handled before

vars == << variant, table, req, pc, terms, query, args, ctx, cursor, rowsOpen,
           dbRunning, dbCalls, results, dbErr, resp, prev, round >>

---------------------------------------------------------------------------
(* Characters and strings                                                  *)

\* Longest generated query text of the tokenizer specification.
MaxLen == 4

\* How many times a request is re-issued against unchanged data.
MaxRounds == 1

UpperCase == << "A","B","C","D","E","F","G","H","I","J","K","L","M",
                "N","O","P","Q","R","S","T","U","V","W","X","Y","Z","U+00C9" >>
LowerCase == << "a","b","c","d","e","f","g","h","i","j","k","l","m",
                "n","o","p","q","r","s","t","u","v","w","x","y","z","U+00E9" >>

\* Byte order of the characters the model uses (the default "C" ordering of
\* text values): a character sorts by its position in this list.
CharOrder == << "\t", "\n", "\f", "\r", " ", "%", ",", "0", "1", "2", ";" >>
             \o SubSeq(UpperCase, 1, 26) \o << "\\", "_" >>
             \o SubSeq(LowerCase, 1, 26) \o << "U+0085", "U+00A0", "U+00C9", "U+00E9" >>

Ord(c) == CHOOSE i \in 1..Len(CharOrder) : CharOrder[i] = c

\* Number of bytes of the UTF-8 encoding of a character (Go's len counts bytes).
ByteLen(c) == IF c \in {"U+0085", "U+00A0", "U+00C9", "U+00E9"} THEN 2 ELSE 1

RECURSIVE StrByteLen(_)
StrByteLen(s) == IF s = <<>> THEN 0 ELSE ByteLen(Head(s)) + StrByteLen(Tail(s))

\* unicode.ToLower on one character.
ToLowerChar(c) ==
    IF \E i \in 1..Len(UpperCase) : UpperCase[i] = c
    THEN LowerCase[CHOOSE i \in 1..Len(UpperCase) : UpperCase[i] = c]
    ELSE c

\* strings.ToLower.
ToLower(s) == [i \in 1..Len(s) |-> ToLowerChar(s[i])]

\* unicode.IsSpace, the set strings.TrimSpace trims.
IsSpace(c) == c \in {" ", "\t", "\n", "\f", "\r", "U+0085", "U+00A0"}

RECURSIVE TrimLeft(_)
TrimLeft(s) == IF s # <<>> /\ IsSpace(Head(s)) THEN TrimLeft(Tail(s)) ELSE s

RECURSIVE TrimRight(_)
TrimRight(s) ==
    IF s # <<>> /\ IsSpace(s[Len(s)]) THEN TrimRight(SubSeq(s, 1, Len(s) - 1)) ELSE s

\* strings.TrimSpace.
TrimSpace(s) == TrimRight(TrimLeft(s))

\* The separator predicate prepareSearchTerms passes to strings.FieldsFunc.
IsSeparator(c) == c \in {" ", ",", ";", "\t", "\n"}

RECURSIVE FieldsFrom(_, _, _)
FieldsFrom(s, cur, acc) ==
    IF s = <<>>
    THEN IF cur = <<>> THEN acc ELSE Append(acc, cur)
    ELSE IF IsSeparator(Head(s))
         THEN FieldsFrom(Tail(s), <<>>, IF cur = <<>> THEN acc ELSE Append(acc, cur))
         ELSE FieldsFrom(Tail(s), Append(cur, Head(s)), acc)

\* strings.FieldsFunc(s, IsSeparator): the maximal separator-free runs of s.
FieldsFunc(s) == FieldsFrom(s, <<>>, <<>>)

\* s contains t as a contiguous substring.
Contains(s, t) ==
    \E i \in 1..(Len(s) - Len(t) + 1) : SubSeq(s, i, i + Len(t) - 1) = t

\* Lexicographic order of two strings by CharOrder.
RECURSIVE StrLE(_, _)
StrLE(a, b) ==
    IF a = <<>> THEN TRUE
    ELSE IF b = <<>> THEN FALSE
    ELSE IF Head(a) = Head(b) THEN StrLE(Tail(a), Tail(b))
    ELSE Ord(Head(a)) < Ord(Head(b))

---------------------------------------------------------------------------
(* Term tokenizer                                                          *)

stopWords == {
    <<"t","h","e">>, <<"a">>, <<"a","n">>, <<"a","n","d">>, <<"o","r">>, <<"b","u","t">>,
    <<"i","n">>, <<"o","n">>, <<"a","t">>, <<"t","o">>, <<"f","o","r">>, <<"o","f">>,
    <<"w","i","t","h">>, <<"b","y">>, <<"i","s">>, <<"a","r","e">>, <<"w","a","s">>,
    <<"w","e","r","e">>, <<"b","e">>, <<"b","e","e","n">>, <<"h","a","v","e">>,
    <<"h","a","s">>, <<"h","a","d">>, <<"d","o">>, <<"d","o","e","s">>, <<"d","i","d">>,
    <<"w","i","l","l">>, <<"w","o","u","l","d">>, <<"c","o","u","l","d">>,
    <<"s","h","o","u","l","d">>, <<"w","a","n","t">>, <<"l","i","k","e">>,
    <<"b","u","y">>, <<"n","e","e","d">>, <<"p","l","e","a","s","e">>,
    <<"g","i","v","e">> }

\* The filter loop of prepareSearchTerms: a raw term is kept unless it is
\* shorter than 2 bytes or a stop word.
KeepTerm(term) == ~(StrByteLen(term) < 2) /\ term \notin stopWords

filteredTerms(rawTerms) == SelectSeq(rawTerms, KeepTerm)

\* A tokenizer without the fallback of its last lines.
prepareSearchTermsNoFallback(queryText) ==
    filteredTerms(FieldsFunc(ToLower(TrimSpace(queryText))))

prepareSearchTerms(queryText) ==
    LET cleaned  == ToLower(TrimSpace(queryText))
        rawTerms == FieldsFunc(cleaned)
        filtered == filteredTerms(rawTerms)
    IN  IF Len(filtered) = 0 THEN << cleaned >> ELSE filtered

---------------------------------------------------------------------------
(* Storage: tables, rows, and the pattern matching of LIKE / ILIKE        *)

\* The allow-list main() passes to MakeQueryHandler.
allowed ==
    [ items  |-> << "id", "name", "category", "price_ugx", "available" >>,
      users  |-> << "id", "email", "role" >>,
      orders |-> << "id", "user_id", "status", "total_cost" >> ]

\* Columns of the stored tables: items and users as their migrations create
\* them; no migration of orders is at hand, its columns are taken to be the
\* allow-listed ones.
TableCols ==
    [ items  |-> { "id", "name", "category", "price_ugx", "available",
                   "created_at", "updated_at" },
      users  |-> { "id", "username", "email", "password_hash", "verified",
                   "verification_token", "reset_token", "reset_expires",
                   "created_at" },
      orders |-> { "id", "user_id", "status", "total_cost" } ]

\* The columns of type TEXT.
TextCols ==
    { "name", "category", "username", "email", "password_hash",
      "verification_token", "reset_token", "status" }

\* LIKE: the whole of s matches pattern p, where % stands for any run of
\* characters, _ for any one character and a backslash quotes the next one.
RECURSIVE Like(_, _)
Like(s, p) ==
    IF p = <<>> THEN s = <<>>
    ELSE IF Head(p) = "%"
         THEN Like(s, Tail(p)) \/ (s # <<>> /\ Like(Tail(s), p))
    ELSE IF Head(p) = "\\" /\ Len(p) >= 2
         THEN s # <<>> /\ Head(s) = p[2] /\ Like(Tail(s), Tail(Tail(p)))
    ELSE s # <<>> /\ (Head(p) = "_" \/ Head(p) = Head(s)) /\ Like(Tail(s), Tail(p))

\* ILIKE: LIKE regardless of case.
ILike(s, p) == Like(ToLower(s), ToLower(p))

ItemRow(id, name, category) ==
    [ id |-> id, name |-> name, category |-> category,
      price_ugx |-> 100000, available |-> TRUE,
      created_at |-> "t0", updated_at |-> "t0" ]

sLaptopStand == <<"L","a","p","t","o","p"," ","S","t","a","n","d">>
sUSBStand    == <<"U","S","B"," ","S","t","a","n","d">>
sLaptopAcc   == <<"L","a","p","t","o","p"," ","A","c","c","e","s","s","o","r","i","e","s">>
sOffice      == <<"O","f","f","i","c","e">>
sCable       == <<"C","a","b","l","e">>
sWebcam      == <<"W","e","b","c","a","m">>
sLaptop      == <<"l","a","p","t","o","p">>
sNoMatch     == <<"z","z","z","z","n","o","m","a","t","c","h">>

\* The three rows of the ranking example; what the example leaves open (the
\* categories of the first two rows, the name of the third) is drawn from two
\* values each.
LaptopItems(cat1, cat2, name3) ==
    { ItemRow(1, sLaptopStand, cat1),
      ItemRow(2, sUSBStand, cat2),
      ItemRow(3, name3, sLaptopAcc) }

LaptopTables ==
    { LaptopItems(c1, c2, n) :
        c1 \in { sOffice, sLaptopAcc }, c2 \in { sOffice, sLaptopAcc },
        n \in { sCable, sWebcam } }

\* Rows that tie on rank and name (items.name is not unique).
TieItems ==
    { ItemRow(1, <<"a","b">>, <<"x">>),
      ItemRow(2, <<"a","b">>, <<"y">>),
      ItemRow(3, <<"B">>, <<"A","b">>) }

\* Rows that tell a wildcard match from a substring match.
WildItems ==
    { ItemRow(1, <<"a","x","b">>, <<"z","z">>),
      ItemRow(2, <<"z","z">>, <<"a","_","b">>) }

ItemTables == LaptopTables \cup { TieItems, WildItems }

UserRows ==
    { [ id |-> 1, username |-> <<"a","b">>, email |-> <<"a","b","x">>,
        password_hash |-> <<"z">>, verified |-> FALSE,
        verification_token |-> <<>>, reset_token |-> <<>>,
        reset_expires |-> "null", created_at |-> "t0" ] }

Tables == { [ items |-> it, users |-> UserRows, orders |-> {} ] : it \in ItemTables }

---------------------------------------------------------------------------
(* Requests and responses                                                  *)

\* json.Decoder leaves an absent maxResults at Go's zero value, 0.
MaxResultsValues == { -5, 0, 1, 2, 50, 100, 101, 1000 }

QueryTexts ==
    { <<>>, sLaptop, sNoMatch, <<"a","b">>, <<"A","b"," ","b">>, <<"a","_","b">>,
      <<"_">>, <<" ">>, <<"a","b",","," ","B","c">> }

FieldLists ==
    { <<>>, << "name" >>, << "category", "id" >>, << "id" >>,
      << "name", "secret" >>, << "secret", "name", "hidden" >>, << "email" >> }

ModelNames == { "", "items", "users", "orders", "secrets" }

Requests ==
    [ method : { "POST", "GET" }, bodyOK : BOOLEAN, model : ModelNames,
      fields : FieldLists, queryText : QueryTexts, maxResults : MaxResultsValues ]

NoField == "-"

ErrorResp(status, msg) ==
    [ status |-> status, msg |-> msg, field |-> NoField,
      records |-> <<>>, isNull |-> FALSE, hasCount |-> FALSE, count |-> 0 ]

FieldErrorResp(f) ==
    [ ErrorResp(400, "field not allowed for model") EXCEPT !.field = f ]

NoResp == ErrorResp(0, "none")

---------------------------------------------------------------------------
(* Validation of a request                                                 *)

Range(f) == { f[i] : i \in DOMAIN f }

Min(a, b) == IF a < b THEN a ELSE b

\* A clamp that forgets the upper limit.
ClampNoUpper(n) == IF n <= 0 THEN 10 ELSE n

\* if req.MaxResults <= 0 || req.MaxResults > 100 { req.MaxResults = 10 }
ClampMaxResults(n) == IF n <= 0 \/ n > 100 THEN 10 ELSE n

\* The first requested field that is not in the model's allow-list.
FirstBadField(fields, model) ==
    fields[CHOOSE i \in DOMAIN fields :
              /\ fields[i] \notin Range(allowed[model])
              /\ \A j \in 1..(i - 1) : fields[j] \in Range(allowed[model])]

\* A field check that looks at the first requested field only.
RankingRejectionFirstFieldOnly(r) ==
    IF r.method # "POST" THEN ErrorResp(405, "method not allowed")
    ELSE IF ~r.bodyOK THEN ErrorResp(400, "invalid JSON payload")
    ELSE IF r.model = "" THEN ErrorResp(400, "'model' is required")
    ELSE IF Len(r.fields) = 0 THEN ErrorResp(400, "'fields' array cannot be empty")
    ELSE IF r.queryText = <<>> THEN ErrorResp(400, "'queryText' is required")
    ELSE IF r.model \notin DOMAIN allowed THEN ErrorResp(400, "model not found")
    ELSE IF r.fields[1] \notin Range(allowed[r.model])
         THEN FieldErrorResp(r.fields[1])
    ELSE NoResp

\* The ranking checks without the loop over the requested fields.
RankingRejectionNoFieldCheck(r) ==
    IF r.method # "POST" THEN ErrorResp(405, "method not allowed")
    ELSE IF ~r.bodyOK THEN ErrorResp(400, "invalid JSON payload")
    ELSE IF r.model = "" THEN ErrorResp(400, "'model' is required")
    ELSE IF Len(r.fields) = 0 THEN ErrorResp(400, "'fields' array cannot be empty")
    ELSE IF r.queryText = <<>> THEN ErrorResp(400, "'queryText' is required")
    ELSE IF r.model \notin DOMAIN allowed THEN ErrorResp(400, "model not found")
    ELSE NoResp

\* The checks of the ranking handler, in their order; NoResp when all pass.
RankingRejection(r) ==
    IF r.method # "POST" THEN ErrorResp(405, "method not allowed")
    ELSE IF ~r.bodyOK THEN ErrorResp(400, "invalid JSON payload")
    ELSE IF r.model = "" THEN ErrorResp(400, "'model' is required")
    ELSE IF Len(r.fields) = 0 THEN ErrorResp(400, "'fields' array cannot be empty")
    ELSE IF r.queryText = <<>> THEN ErrorResp(400, "'queryText' is required")
    ELSE IF r.model \notin DOMAIN allowed THEN ErrorResp(400, "model not found")
    ELSE IF \E i \in DOMAIN r.fields : r.fields[i] \notin Range(allowed[r.model])
         THEN FieldErrorResp(FirstBadField(r.fields, r.model))
    ELSE NoResp

\* The generic handler keeps the requested fields that are allow-listed.
fieldsToSearch(r) ==
    IF r.model \in DOMAIN allowed
    THEN SelectSeq(r.fields, LAMBDA f : f \in Range(allowed[r.model]))
    ELSE <<>>

\* The checks of the generic handler, in their order; NoResp when all pass.
GenericRejection(r) ==
    IF r.method # "POST" THEN ErrorResp(405, "method not allowed")
    ELSE IF ~r.bodyOK THEN ErrorResp(400, "invalid JSON payload")
    ELSE IF r.model \notin DOMAIN allowed THEN ErrorResp(400, "model not allowed")
    ELSE IF Len(fieldsToSearch(r)) = 0 THEN ErrorResp(400, "no valid fields to search")
    ELSE IF Len(r.queryText) < 1 THEN ErrorResp(400, "queryText must be non-empty")
    ELSE NoResp

Rejection(v, r) == IF v = "ranking" THEN RankingRejection(r) ELSE GenericRejection(r)

---------------------------------------------------------------------------
(* Query construction                                                      *)

TextArg(s) == [ kind |-> "text", text |-> s, int |-> 0 ]
IntArg(n)  == [ kind |-> "int", text |-> <<>>, int |-> n ]

searchCols == << "name", "category" >>

\* A loop that numbers both comparisons of a term with the same placeholder.
RECURSIVE WhereLoopSharedPlaceholder(_, _, _, _)
WhereLoopSharedPlaceholder(ts, argIdx, whereClauses, as) ==
    IF ts = <<>>
    THEN [ whereClauses |-> whereClauses, args |-> as, argIdx |-> argIdx ]
    ELSE LET likePattern == << "%" >> \o Head(ts) \o << "%" >>
             parts == [ j \in 1..2 |->
                          [ col |-> << "name", "category" >>[j], arg |-> argIdx,
                            wrap |-> FALSE ] ]
             more  == [ j \in 1..2 |-> [ kind |-> "text", text |-> likePattern,
                                         int |-> 0 ] ]
         IN  WhereLoopSharedPlaceholder(Tail(ts), argIdx + 2,
                                        Append(whereClauses, parts), as \o more)

\* The loop over the terms: one OR-group per term, one ILIKE comparison and one
\* argument per search column, argIdx counting the placeholders.
RECURSIVE WhereLoop(_, _, _, _)
WhereLoop(ts, argIdx, whereClauses, as) ==
    IF ts = <<>>
    THEN [ whereClauses |-> whereClauses, args |-> as, argIdx |-> argIdx ]
    ELSE LET likePattern == << "%" >> \o Head(ts) \o << "%" >>
             parts == [ j \in 1..Len(searchCols) |->
                          [ col |-> searchCols[j], arg |-> argIdx + j - 1,
                            wrap |-> FALSE ] ]
             more  == [ j \in 1..Len(searchCols) |-> TextArg(likePattern) ]
         IN  WhereLoop(Tail(ts), argIdx + Len(searchCols),
                       Append(whereClauses, parts), as \o more)

NoQuery ==
    [ kind |-> "none", selectCols |-> <<>>, from |-> "", where |-> <<>>,
      whereTrue |-> FALSE, ordered |-> FALSE, orderName |-> 0, orderCat |-> 0,
      limitIdx |-> 0 ]

\* The statement and argument list of the ranking handler.
BuildRankingQuery(r, maxResults) ==
    LET ts == prepareSearchTerms(r.queryText)
        w  == WhereLoop(ts, 1, <<>>, <<>>)
        exactPattern == << "%" >> \o ToLower(r.queryText) \o << "%" >>
    IN  [ terms |-> ts,
          query |-> [ kind |-> "ranking", selectCols |-> r.fields, from |-> r.model,
                      where |-> w.whereClauses,
                      whereTrue |-> ~(Len(w.whereClauses) > 0),
                      ordered |-> TRUE,
                      orderName |-> w.argIdx, orderCat |-> w.argIdx + 1,
                      limitIdx |-> w.argIdx + 2 ],
          args  |-> w.args \o << TextArg(exactPattern), TextArg(exactPattern),
                                 IntArg(maxResults) >> ]

\* The statement and argument list of the generic handler:
\* SELECT * FROM model WHERE f ILIKE '%' || $1 || '%' OR ... LIMIT $2.
BuildGenericQuery(r, maxResults) ==
    LET fs == fieldsToSearch(r)
    IN  [ terms |-> <<>>,
          query |-> [ kind |-> "generic", selectCols |-> << "*" >>, from |-> r.model,
                      where |-> << [ j \in 1..Len(fs) |->
                                       [ col |-> fs[j], arg |-> 1, wrap |-> TRUE ] ] >>,
                      whereTrue |-> FALSE, ordered |-> FALSE,
                      orderName |-> 0, orderCat |-> 0, limitIdx |-> 2 ],
          args  |-> << TextArg(r.queryText), IntArg(maxResults) >> ]

BuildQuery(v, r) ==
    IF v = "ranking" THEN BuildRankingQuery(r, ClampMaxResults(r.maxResults))
    ELSE BuildGenericQuery(r, ClampMaxResults(r.maxResults))

---------------------------------------------------------------------------
(* Query evaluation by storage                                             *)

\* The pattern of one comparison: the bound argument, between '%' when the
\* statement concatenates them.
PatternOf(e, as) ==
    IF e.wrap THEN << "%" >> \o as[e.arg].text \o << "%" >> ELSE as[e.arg].text

\* WHERE: every group holds, a group holding when one of its comparisons does.
RowMatches(row, q, as) ==
    \/ q.whereTrue
    \/ \A i \in DOMAIN q.where :
          \E j \in DOMAIN q.where[i] :
             ILike(row[q.where[i][j].col], PatternOf(q.where[i][j], as))

\* The columns a statement names.
QueryColumns(q) ==
    UNION { { q.where[i][j].col : j \in DOMAIN q.where[i] } : i \in DOMAIN q.where }
    \cup (IF q.ordered THEN { "name", "category" } ELSE {})
    \cup (Range(q.selectCols) \ { "*" })

WhereColumns(q) ==
    UNION { { q.where[i][j].col : j \in DOMAIN q.where[i] } : i \in DOMAIN q.where }

\* Storage refuses a statement that names a column the table does not have, or
\* that applies ILIKE to a column that is not text.
QueryInvalid(q) ==
    \/ q.from \notin DOMAIN TableCols
    \/ \E c \in QueryColumns(q) : c \notin TableCols[q.from]
    \/ \E c \in WhereColumns(q) : c \notin TextCols

\* An ORDER BY without the CASE expression: by name alone.
RankByNameOnly(row, q, as) == 3

\* CASE WHEN LOWER(name) LIKE LOWER($k) THEN 1
\*      WHEN LOWER(category) LIKE LOWER($k+1) THEN 2 ELSE 3 END
Rank(row, q, as) ==
    IF Like(ToLower(row.name), ToLower(as[q.orderName].text)) THEN 1
    ELSE IF Like(ToLower(row.category), ToLower(as[q.orderCat].text)) THEN 2
    ELSE 3

\* ORDER BY rank, name ASC: the order of rows equal in both is left open.
SortedOK(s, q, as) ==
    \A i \in 1..(Len(s) - 1) :
       \/ Rank(s[i], q, as) < Rank(s[i + 1], q, as)
       \/ /\ Rank(s[i], q, as) = Rank(s[i + 1], q, as)
          /\ StrLE(s[i].name, s[i + 1].name)

Orderings(S) ==
    { s \in [1..Cardinality(S) -> S] : \A i, j \in DOMAIN s : i # j => s[i] # s[j] }

\* Every row sequence the statement may deliver: the matching rows, in an order
\* the ORDER BY allows (any order without one), cut at LIMIT.
QueryResults(q, as, tbl) ==
    LET matching == { row \in tbl[q.from] : RowMatches(row, q, as) }
        lim == as[q.limitIdx].int
    IN  { SubSeq(s, 1, Min(lim, Len(s))) :
            s \in { o \in Orderings(matching) : q.ordered => SortedOK(o, q, as) } }

\* The record built from one scanned row: its selected columns by name.
RowMap(row, q) ==
    IF q.selectCols = << "*" >> THEN row
    ELSE [ c \in Range(q.selectCols) |-> row[c] ]

---------------------------------------------------------------------------
(* The handler run                                                         *)

\* The local `results` before its allocation.
NoResults == [ isNil |-> TRUE, recs |-> <<>> ]

\* `var results []T` in place of make: a nil slice, which JSON encodes as null.
NilResults == [ isNil |-> TRUE, recs |-> <<>> ]

\* results := make([]T, 0): an empty, non-nil slice.
MakeResults == [ isNil |-> FALSE, recs |-> <<>> ]

AppendResult(res, rec) == [ isNil |-> FALSE, recs |-> Append(res.recs, rec) ]

\* The success response: the bare array (ranking) or {results, count} (generic).
OkResp(v, res) ==
    [ status |-> 200, msg |-> "ok", field |-> NoField,
      records |-> res.recs, isNull |-> res.isNil,
      hasCount |-> (v = "generic"),
      count |-> IF v = "generic" THEN Len(res.recs) ELSE 0 ]

\* The end of the row loop with rows.Err() left unchecked.
AfterRowsIgnoringErr(v, res, iterErr) == OkResp(v, res)

\* if err := rows.Err(); err != nil { 500 } else the JSON response.
AfterRows(v, res, iterErr) ==
    IF iterErr THEN ErrorResp(500, "row iteration error") ELSE OkResp(v, res)

ResetLocals ==
    /\ terms' = <<>>
    /\ query' = NoQuery
    /\ args' = <<>>
    /\ ctx' = "live"
    /\ cursor' = <<>>
    /\ rowsOpen' = FALSE
    /\ dbRunning' = FALSE
    /\ dbCalls' = 0
    /\ results' = NoResults
    /\ dbErr' = "none"
    /\ resp' = NoResp

\* A request arrives.
Receive ==
    /\ pc = "idle"
    /\ \E r \in Requests : req' = r
    /\ pc' = "handle"
    /\ UNCHANGED << variant, table, terms, query, args, ctx, cursor, rowsOpen,
                    dbRunning, dbCalls, results, dbErr, resp, prev, round >>

\* The handler up to a rejection of the request.
Reject ==
    /\ pc = "handle"
    /\ Rejection(variant, req) # NoResp
    /\ resp' = Rejection(variant, req)
    /\ pc' = "done"
    /\ UNCHANGED << variant, table, req, terms, query, args, ctx, cursor, rowsOpen,
                    dbRunning, dbCalls, results, dbErr, prev, round >>

\* The handler from its entry to db.QueryContext: the checks pass, the
\* statement is built and dispatched under the query context.
Dispatch ==
    /\ pc = "handle"
    /\ Rejection(variant, req) = NoResp
    /\ LET b == BuildQuery(variant, req)
       IN  /\ terms' = b.terms
           /\ query' = b.query
           /\ args' = b.args
    /\ ctx' = "live"
    /\ dbCalls' = dbCalls + 1
    /\ dbRunning' = TRUE
    /\ pc' = "querying"
    /\ UNCHANGED << variant, table, req, cursor, rowsOpen, results, dbErr, resp,
                    prev, round >>

\* The query context ends while storage works for the request: the 2-second
\* deadline of context.WithTimeout (ranking handler only) or the cancellation
\* of the request's own context. database/sql aborts the statement and closes
\* the cursor.
ContextDone ==
    /\ pc \in { "querying", "columns", "iterating" }
    /\ ctx = "live"
    /\ \E why \in { "deadline", "client" } :
          /\ why = "deadline" => variant = "ranking"
          /\ ctx' = why
    /\ dbRunning' = FALSE
    /\ rowsOpen' = FALSE
    /\ UNCHANGED << variant, table, req, pc, terms, query, args, cursor, dbCalls,
                    results, dbErr, resp, prev, round >>

\* A query failure reported as 504 Gateway Timeout.
QueryFailsGatewayTimeout ==
    /\ pc = "querying"
    /\ resp' = ErrorResp(504, "database query timeout")
    /\ dbErr' = "query"
    /\ dbRunning' = FALSE
    /\ pc' = "returning"
    /\ UNCHANGED << variant, table, req, terms, query, args, ctx, cursor, rowsOpen,
                    dbCalls, results, prev, round >>

\* db.QueryContext returns an error: the context is done, storage refuses the
\* statement, or storage fails.
QueryFails ==
    /\ pc = "querying"
    /\ resp' = ErrorResp(500, "database query error")
    /\ dbErr' = "query"
    /\ dbRunning' = FALSE
    /\ pc' = "returning"
    /\ UNCHANGED << variant, table, req, terms, query, args, ctx, cursor, rowsOpen,
                    dbCalls, results, prev, round >>

\* db.QueryContext returns a cursor over the rows the statement selects.
QueryReturns ==
    /\ pc = "querying"
    /\ ctx = "live"
    /\ ~QueryInvalid(query)
    /\ \E out \in QueryResults(query, args, table) : cursor' = out
    /\ rowsOpen' = TRUE
    /\ pc' = "columns"
    /\ UNCHANGED << variant, table, req, terms, query, args, ctx, dbRunning, dbCalls,
                    results, dbErr, resp, prev, round >>

\* rows.Columns() and the allocation of results; the generic handler answers
\* 500 when Columns fails (the cursor is closed), the ranking handler drops
\* the error.
FetchColumns ==
    /\ pc = "columns"
    /\ IF variant = "generic" /\ ~rowsOpen
       THEN /\ resp' = ErrorResp(500, "error fetching columns")
            /\ dbErr' = "columns"
            /\ pc' = "returning"
            /\ UNCHANGED results
       ELSE /\ results' = MakeResults
            /\ pc' = "iterating"
            /\ UNCHANGED << resp, dbErr >>
    /\ UNCHANGED << variant, table, req, terms, query, args, ctx, cursor, rowsOpen,
                    dbRunning, dbCalls, prev, round >>

\* rows.Next() is true and rows.Scan succeeds: one more record.
ScanRow ==
    /\ pc = "iterating"
    /\ rowsOpen
    /\ cursor # <<>>
    /\ results' = AppendResult(results, RowMap(Head(cursor), query))
    /\ cursor' = Tail(cursor)
    /\ UNCHANGED << variant, table, req, pc, terms, query, args, ctx, rowsOpen,
                    dbRunning, dbCalls, dbErr, resp, prev, round >>

\* A scan failure that skips the row and goes on.
ScanErrorContinue ==
    /\ pc = "iterating"
    /\ rowsOpen
    /\ cursor # <<>>
    /\ dbErr' = "scan"
    /\ cursor' = Tail(cursor)
    /\ UNCHANGED << variant, table, req, pc, terms, query, args, ctx, rowsOpen,
                    dbRunning, dbCalls, results, resp, prev, round >>

\* rows.Next() is true and rows.Scan fails: 500, the handler returns.
ScanError ==
    /\ pc = "iterating"
    /\ rowsOpen
    /\ cursor # <<>>
    /\ dbErr' = "scan"
    /\ resp' = ErrorResp(500, "row scan error")
    /\ pc' = "returning"
    /\ UNCHANGED << variant, table, req, terms, query, args, ctx, cursor, rowsOpen,
                    dbRunning, dbCalls, results, prev, round >>

\* rows.Next() is false: the cursor was closed by the context, the driver
\* failed while fetching, or every row was delivered; then the rows.Err()
\* check and the response.
RowsEnd ==
    /\ pc = "iterating"
    /\ \E iterErr \in BOOLEAN :
          /\ ~rowsOpen => iterErr
          /\ (~iterErr) => cursor = <<>>
          /\ dbErr' = IF iterErr /\ dbErr = "none" THEN "iter" ELSE dbErr
          /\ resp' = AfterRows(variant, results, iterErr)
    /\ rowsOpen' = FALSE
    /\ dbRunning' = FALSE
    /\ pc' = "returning"
    /\ UNCHANGED << variant, table, req, terms, query, args, ctx, cursor, dbCalls,
                    results, prev, round >>

\* A return that runs no deferred call.
ReturnNoClose ==
    /\ pc = "returning"
    /\ pc' = "done"
    /\ UNCHANGED << variant, table, req, terms, query, args, ctx, cursor, rowsOpen,
                    dbRunning, dbCalls, results, dbErr, resp, prev, round >>

\* The deferred calls of a run that reached db.QueryContext: rows.Close() and,
\* in the ranking handler, cancel().
Return ==
    /\ pc = "returning"
    /\ rowsOpen' = FALSE
    /\ dbRunning' = FALSE
    /\ ctx' = IF variant = "ranking" /\ ctx = "live" THEN "cancelled" ELSE ctx
    /\ pc' = "done"
    /\ UNCHANGED << variant, table, req, terms, query, args, cursor, dbCalls,
                    results, dbErr, resp, prev, round >>

\* The client issues the same request again; the tables are unchanged.
Resubmit ==
    /\ pc = "done"
    /\ round < MaxRounds
    /\ prev' = resp
    /\ round' = round + 1
    /\ pc' = "handle"
    /\ ResetLocals
    /\ UNCHANGED << variant, table, req >>

Init ==
    /\ variant \in { "generic", "ranking" }
    /\ table \in Tables
    /\ req = [ method |-> "POST", bodyOK |-> TRUE, model |-> "", fields |-> <<>>,
               queryText |-> <<>>, maxResults |-> 0 ]
    /\ pc = "idle"
    /\ terms = <<>>
    /\ query = NoQuery
    /\ args = <<>>
    /\ ctx = "live"
    /\ cursor = <<>>
    /\ rowsOpen = FALSE
    /\ dbRunning = FALSE
    /\ dbCalls = 0
    /\ results = NoResults
    /\ dbErr = "none"
    /\ resp = NoResp
    /\ prev = NoResp
    /\ round = 0

Next ==
    \/ Receive
    \/ Reject
    \/ Dispatch
    \/ ContextDone
    \/ QueryFails
    \/ QueryReturns
    \/ FetchColumns
    \/ ScanRow
    \/ ScanError
    \/ RowsEnd
    \/ Return
    \/ Resubmit

Spec == Init /\ [][Next]_vars

---------------------------------------------------------------------------
(* The tokenizer on its own: every query text up to MaxLen characters over *)
(* TermChars, and some longer ones.                                        *)

TermChars == { "a", "N", "o", "f", " ", ",", "\r", "U+00E9" }

TermExamples ==
    { <<"t","h","e"," ","a"," ","o","f">>,
      <<" ","T","h","e",";","b","u","y","\t","a","\n">>,
      <<"I"," ","w","a","n","t"," ","a"," ","L","a","p","t","o","p">>,
      sLaptop, sLaptopStand, <<"a","_","b">>, <<"\t",";",","," ","\n">> }

TermInputs == UNION { [1..k -> TermChars] : k \in 0..MaxLen } \cup TermExamples

Tokenize ==
    /\ pc = "tokenize"
    /\ terms' = prepareSearchTerms(req.queryText)
    /\ pc' = "tokenized"
    /\ UNCHANGED << variant, table, req, query, args, ctx, cursor, rowsOpen,
                    dbRunning, dbCalls, results, dbErr, resp, prev, round >>

InitTerms ==
    /\ variant = "ranking"
    /\ table = [ items |-> {}, users |-> {}, orders |-> {} ]
    /\ \E q \in TermInputs :
          req = [ method |-> "POST", bodyOK |-> TRUE, model |-> "items",
                  fields |-> << "name" >>, queryText |-> q, maxResults |-> 0 ]
    /\ pc = "tokenize"
    /\ terms = <<>>
    /\ query = NoQuery
    /\ args = <<>>
    /\ ctx = "live"
    /\ cursor = <<>>
    /\ rowsOpen = FALSE
    /\ dbRunning = FALSE
    /\ dbCalls = 0
    /\ results = NoResults
    /\ dbErr = "none"
    /\ resp = NoResp
    /\ prev = NoResp
    /\ round = 0

NextTerms == Tokenize

SpecTerms == InitTerms /\ [][NextTerms]_vars

---------------------------------------------------------------------------
(* Claims                                                                  *)

\* The request names an allow-listed model and a field outside its columns.
HasBadField(r) ==
    /\ r.model \in DOMAIN allowed
    /\ \E i \in DOMAIN r.fields : r.fields[i] \notin Range(allowed[r.model])

\* C1 as stated: in the ranking handler, a decoded POST request with an
\* allow-listed model and a field outside its allow-list is answered 400 with
\* the offending field named, and no storage operation is performed.
C1_RejectNamesField ==
    (variant = "ranking" /\ pc = "done" /\ req.method = "POST" /\ req.bodyOK
        /\ HasBadField(req)) =>
        /\ resp.status = 400
        /\ resp.field = FirstBadField(req.fields, req.model)
        /\ dbCalls = 0

\* C1 amended: in the ranking handler a request with an allow-listed model and
\* a field outside its allow-list never reaches storage and is answered 400
\* (405 when it is not a POST); the answer names the first offending field when
\* the request is a decodable POST whose queryText is not empty.
C1_RejectBeforeStorage ==
    (variant = "ranking" /\ pc # "idle" /\ HasBadField(req)) =>
        /\ dbCalls = 0
        /\ pc \in { "handle", "done" }
        /\ pc = "done" =>
              /\ resp.status = IF req.method = "POST" THEN 400 ELSE 405
              /\ (req.method = "POST" /\ req.bodyOK /\ req.queryText # <<>>) =>
                    resp.field = FirstBadField(req.fields, req.model)

\* A request whose second field is the offending one has been rejected.
C1_Witness ==
    /\ variant = "ranking"
    /\ pc = "done"
    /\ req.model = "items"
    /\ req.fields = << "name", "secret" >>
    /\ resp.status = 400
    /\ resp.field = "secret"
    /\ dbCalls = 0

\* The raw tokens of a query text, and whether the filter loop drops them all.
RawTokens(q) == FieldsFunc(ToLower(TrimSpace(q)))

EveryTokenDropped(q) == \A i \in DOMAIN RawTokens(q) : ~KeepTerm(RawTokens(q)[i])

C3_LimitClamped ==
    dbCalls >= 1 =>
        LET lim == args[query.limitIdx]
        IN  /\ lim.kind = "int"
            /\ lim.int \in 1..100
            /\ lim.int = IF req.maxResults \in 1..100 THEN req.maxResults ELSE 10
            /\ Len(cursor) <= lim.int

\* A request for 1000 results was dispatched with the limit 10.
C3_Witness ==
    /\ pc = "querying"
    /\ req.maxResults = 1000
    /\ args[query.limitIdx].int = 10

\* s contains t as a substring, regardless of case.
ContainsCI(s, t) == Contains(ToLower(s), ToLower(t))

\* C4 as stated: the filter of the ranking handler selects a row exactly when
\* every search term is a case-insensitive substring of its name or of its
\* category.
C4_FilterIsSubstringMatch ==
    (variant = "ranking" /\ dbCalls >= 1 /\ ~QueryInvalid(query)) =>
        \A row \in table[query.from] :
            RowMatches(row, query, args) <=>
                \A i \in DOMAIN prepareSearchTerms(req.queryText) :
                    LET t == prepareSearchTerms(req.queryText)[i]
                    IN  ContainsCI(row.name, t) \/ ContainsCI(row.category, t)

\* The rank the ranking clause is described to give a row.
SubstringRank(row, q) ==
    IF ContainsCI(row.name, q) THEN 1
    ELSE IF ContainsCI(row.category, q) THEN 2
    ELSE 3

\* C5 as stated: the returned rows are ordered by whether the name, else the
\* category, contains the whole query text as a case-insensitive substring,
\* rows of equal rank by ascending name.
C5_SubstringRankOrder ==
    (variant = "ranking" /\ pc = "columns") =>
        \A i, j \in DOMAIN cursor :
            i < j =>
               \/ SubstringRank(cursor[i], req.queryText)
                     < SubstringRank(cursor[j], req.queryText)
               \/ /\ SubstringRank(cursor[i], req.queryText)
                        = SubstringRank(cursor[j], req.queryText)
                  /\ StrLE(cursor[i].name, cursor[j].name)


\* Position in the delivered rows of the row with this id, 0 when absent.
Pos(id) ==
    IF \E i \in DOMAIN cursor : cursor[i].id = id
    THEN CHOOSE i \in DOMAIN cursor : cursor[i].id = id
    ELSE 0

ItemById(id) == CHOOSE row \in table.items : row.id = id

\* The ranking example: the three rows, a search for "laptop" by the ranking
\* handler with a limit of at least 3, the rows just delivered.
LaptopSearch ==
    /\ variant = "ranking"
    /\ table.items \in LaptopTables
    /\ req.queryText = sLaptop
    /\ pc = "columns"
    /\ args[query.limitIdx].int >= 3

\* C6 as stated: the search returns all three rows, "Laptop Stand" and
\* "USB Stand" (alphabetically) before the "Laptop Accessories" row.
C6_ThreeRowsNameMatchesFirst ==
    LaptopSearch =>
        /\ Pos(1) > 0 /\ Pos(2) > 0 /\ Pos(3) > 0
        /\ Pos(1) < Pos(2)
        /\ Pos(2) < Pos(3)

\* C6 amended: the search returns the "Laptop Stand" row first (the one name
\* match) and the "Laptop Accessories" row; the "USB Stand" row is returned
\* only when its category contains "laptop", and then it is a category match
\* like the third row, the two in ascending order of name.
C6_LaptopStandFirst ==
    LaptopSearch =>
        /\ Pos(1) = 1
        /\ Pos(3) > 0
        /\ Pos(2) > 0 <=> ContainsCI(ItemById(2).category, sLaptop)
        /\ Pos(2) > 0 => (Pos(2) < Pos(3) <=> StrLE(sUSBStand, ItemById(3).name))

\* All three rows were delivered, the category-only row before "USB Stand".
C6_Witness ==
    /\ LaptopSearch
    /\ Pos(1) = 1
    /\ Pos(3) = 2
    /\ Pos(2) = 3

\* C7 as stated: the same request, issued twice against unchanged tables and
\* answered 200 both times by the ranking handler, gets identical responses.
C7_SameResponseTwice ==
    (variant = "ranking" /\ pc = "done" /\ round >= 1
        /\ resp.status = 200 /\ prev.status = 200) =>
        resp = prev

\* The rows the dispatched statement selects from its table.
MatchingRows == { row \in table[query.from] : RowMatches(row, query, args) }

\* C8: a request that passes validation, whose statement storage accepts and
\* which selects no row, is answered 200 with an empty (not null) list and,
\* where a count is reported, count 0, unless storage failed; every reported
\* count is the number of records of the response.
C8_ZeroMatchIsSuccess ==
    /\ (pc = "done" /\ dbCalls = 1 /\ dbErr = "none" /\ MatchingRows = {}) =>
          /\ resp.status = 200
          /\ resp.records = <<>>
          /\ ~resp.isNull
          /\ variant = "generic" => (resp.hasCount /\ resp.count = 0)
    /\ resp.hasCount => resp.count = Len(resp.records)

\* The search for "zzzznomatch" has been answered 200 with no record.
C8_Witness ==
    /\ pc = "done"
    /\ req.queryText = sNoMatch
    /\ table.items # {}
    /\ dbCalls = 1
    /\ resp.status = 200
    /\ resp.records = <<>>

\* C9: when the 2-second deadline of the ranking handler expires while storage
\* works for the request, during the query or during row iteration, the answer
\* is 500 and, once the handler has returned, no storage work of the request is
\* running and its cursor is closed.
C9_DeadlineCancelsStorage ==
    /\ (variant = "ranking" /\ ctx = "deadline" /\ pc \in { "returning", "done" }) =>
          resp.status = 500
    /\ pc = "done" => (~dbRunning /\ ~rowsOpen)

\* The deadline expired during row iteration, after a row had been read.
C9_Witness ==
    /\ variant = "ranking"
    /\ ctx = "deadline"
    /\ pc = "done"
    /\ results.recs # <<>>
    /\ resp.status = 500

\* C10: a run in which reading a row failed (Scan or iteration) answers 500
\* with none of the rows read; a response carries records only when every row
\* of the cursor was read without error, and then all of them.
C10_AllOrNothing ==
    /\ (pc \in { "returning", "done" } /\ dbErr \in { "scan", "iter" }) =>
          /\ resp.status = 500
          /\ resp.records = <<>>
    /\ resp.records # <<>> =>
          /\ resp.status = 200
          /\ dbErr = "none"
          /\ cursor = <<>>
          /\ resp.records = results.recs

\* A Scan failed after a row had been read, and the answer is the bare 500.
C10_Witness ==
    /\ pc = "done"
    /\ dbErr = "scan"
    /\ results.recs # <<>>
    /\ resp.status = 500
    /\ resp.records = <<>>


\* C11 as stated: every failure response of the search endpoint carries status
\* 400 or 500, whatever the request's method and body.
C11_Only400Or500 ==
    (pc = "done" /\ resp.status # 200) => resp.status \in { 400, 500 }

\* C11 amended: every failure response carries 400 (validation), 500 (storage)
\* or 405, the 405 exactly for a request whose method is not POST, which is
\* refused before its body is read; a validation failure never reaches storage
\* and a 500 is only written after a storage failure.
C11_FailureStatuses ==
    (pc \in { "returning", "done" } /\ resp.status # 200) =>
        /\ resp.status \in { 400, 405, 500 }
        /\ resp.status = 405 <=> req.method # "POST"
        /\ resp.status \in { 400, 405 } <=> dbCalls = 0
        /\ resp.status = 500 <=> dbErr # "none"

\* A GET request has been answered 405.
C11_Witness ==
    /\ pc = "done"
    /\ req.method = "GET"
    /\ req.model = "items"
    /\ resp.status = 405
    /\ dbCalls = 0

\* The columns a request may name for its model.
AllowedCols(m) == Range(allowed[m])

\* C12: in every statement sent to storage the table name is the request's
\* model and a key of the allow-list, and every column name taken from the
\* request (the projection of the ranking handler, the compared columns of the
\* generic one) is in that model's allow-listed columns.
C12_IdentifiersAllowListed ==
    dbCalls >= 1 =>
        /\ query.from = req.model
        /\ query.from \in DOMAIN allowed
        /\ variant = "ranking" =>
              /\ query.selectCols = req.fields
              /\ \A i \in DOMAIN query.selectCols :
                    query.selectCols[i] \in AllowedCols(query.from)
        /\ variant = "generic" =>
              /\ query.selectCols = << "*" >>
              /\ WhereColumns(query) \subseteq AllowedCols(query.from)
              /\ WhereColumns(query) \subseteq Range(req.fields)

\* A statement projecting two allow-listed columns of items was dispatched.
C12_Witness ==
    /\ variant = "ranking"
    /\ pc = "querying"
    /\ query.from = "items"
    /\ query.selectCols = << "category", "id" >>


\* The messages of the missing-field rejections of the two handlers.
MissingFieldMsgs ==
    { "'model' is required", "'fields' array cannot be empty",
      "'queryText' is required", "queryText must be non-empty" }

\* C13 as stated: the checks run in the order parse, missing field, clamp,
\* allow-list, so a decoded POST request with an empty queryText or empty
\* fields and also an unknown model or a disallowed field is rejected as a
\* missing-field error, never as unknown-model or field-not-allowed.
C13_MissingFieldFirst ==
    (pc = "done" /\ req.method = "POST" /\ req.bodyOK
        /\ (req.queryText = <<>> \/ req.fields = <<>>)
        /\ (req.model \notin DOMAIN allowed \/ HasBadField(req))) =>
        /\ resp.status = 400
        /\ resp.msg \in MissingFieldMsgs
        /\ resp.field = NoField


\* The placeholder numbers the statement refers to, in the order of its text:
\* the comparisons of the WHERE clause, the two of the ORDER BY, the LIMIT.
RECURSIVE WherePlaceholders(_)
WherePlaceholders(groups) ==
    IF groups = <<>> THEN <<>>
    ELSE [ j \in DOMAIN Head(groups) |-> Head(groups)[j].arg ]
         \o WherePlaceholders(Tail(groups))

Placeholders(q) ==
    WherePlaceholders(q.where) \o << q.orderName, q.orderCat, q.limitIdx >>

\* C14: for a request of n >= 1 search terms the statement of the ranking
\* handler and its argument list are aligned: 2n+3 arguments, each placeholder
\* $1..$(2n+3) referred to exactly once, $(2i-1) and $(2i) the name and the
\* category comparison of term i and bound to "%" term_i "%", $(2n+1) and
\* $(2n+2) bound to the exact-match pattern, $(2n+3) to the clamped limit.
\* The statement itself is made of the model, the requested fields, the two
\* search columns and the placeholder numbers: it holds no query text.
C14_PlaceholdersAligned ==
    (variant = "ranking" /\ dbCalls >= 1) =>
        LET n == Len(terms)
        IN  /\ n >= 1
            /\ query.kind = "ranking"
            /\ query.from = req.model
            /\ query.selectCols = req.fields
            /\ ~query.whereTrue
            /\ query.ordered
            /\ terms = prepareSearchTerms(req.queryText)
            /\ Len(args) = 2 * n + 3
            /\ \A k \in 1..(2 * n + 3) :
                  Cardinality({ i \in DOMAIN Placeholders(query) :
                                  Placeholders(query)[i] = k }) = 1
            /\ Len(Placeholders(query)) = 2 * n + 3
            /\ Len(query.where) = n
            /\ \A i \in 1..n :
                  /\ query.where[i][1] = [ col |-> "name", arg |-> 2 * i - 1,
                                           wrap |-> FALSE ]
                  /\ query.where[i][2] = [ col |-> "category", arg |-> 2 * i,
                                           wrap |-> FALSE ]
                  /\ args[2 * i - 1] = TextArg(<< "%" >> \o terms[i] \o << "%" >>)
                  /\ args[2 * i] = TextArg(<< "%" >> \o terms[i] \o << "%" >>)
            /\ query.orderName = 2 * n + 1
            /\ query.orderCat = 2 * n + 2
            /\ args[2 * n + 1] = TextArg(<< "%" >> \o ToLower(req.queryText) \o << "%" >>)
            /\ args[2 * n + 2] = args[2 * n + 1]
            /\ query.limitIdx = 2 * n + 3
            /\ args[2 * n + 3] = IntArg(ClampMaxResults(req.maxResults))

\* A two-term request was dispatched with its seven arguments.
C14_Witness ==
    /\ variant = "ranking"
    /\ pc = "querying"
    /\ req.queryText = <<"a","b",","," ","B","c">>
    /\ terms = << <<"a","b">>, <<"b","c">> >>
    /\ Len(args) = 7
    /\ Placeholders(query) = << 1, 2, 3, 4, 5, 6, 7 >>


\* A run obtained a cursor when it reached db.QueryContext and the call did
\* not fail.
CursorObtained == dbCalls >= 1 /\ dbErr # "query"

\* C15: a handler run that obtained a cursor from storage has closed it when
\* it returns, and the ranking handler has then released its timeout context,
\* whichever way the run ended (response written, Columns, Scan or iteration
\* error, deadline, client cancellation); a cursor is open only inside a run.
C15_CursorReleasedOnReturn ==
    /\ (pc = "done" /\ CursorObtained) =>
          /\ ~rowsOpen
          /\ variant = "ranking" => ctx # "live"
    /\ rowsOpen => pc \in { "columns", "iterating", "returning" }

\* A run of the ranking handler left by the return after a failed Scan, rows
\* still undelivered: only the deferred calls closed the cursor.
C15_Witness ==
    /\ variant = "ranking"
    /\ pc = "done"
    /\ CursorObtained
    /\ dbErr = "scan"
    /\ cursor # <<>>
    /\ ctx = "cancelled"
    /\ ~rowsOpen


\* C16: for every request that passed validation the filter sent to storage
\* is not degenerate: no search term is empty, no bound pattern is "%%", and
\* the WHERE clause is not the "1=1" fallback.
C16_FilterNotDegenerate ==
    (variant = "ranking" /\ dbCalls >= 1) =>
        /\ \A i \in DOMAIN terms : terms[i] # <<>>
        /\ \A k \in DOMAIN args :
              args[k].kind = "text" => args[k].text # << "%", "%" >>
        /\ ~query.whereTrue


\* The reference tokenizer of C17: split on every whitespace character and on
\* "," and ";", keep the tokens of at least 2 characters that are no stop word.
RefSeparator(c) == IsSpace(c) \/ c \in { ",", ";" }

RECURSIVE RefFieldsFrom(_, _, _)
RefFieldsFrom(s, cur, acc) ==
    IF s = <<>>
    THEN IF cur = <<>> THEN acc ELSE Append(acc, cur)
    ELSE IF RefSeparator(Head(s))
         THEN RefFieldsFrom(Tail(s), <<>>, IF cur = <<>> THEN acc ELSE Append(acc, cur))
         ELSE RefFieldsFrom(Tail(s), Append(cur, Head(s)), acc)

RefKeep(t) == Len(t) >= 2 /\ t \notin stopWords

RefTerms(q) == SelectSeq(RefFieldsFrom(ToLower(TrimSpace(q)), <<>>, <<>>), RefKeep)

\* C17: when prepareSearchTerms does not take the fallback its result is that
\* of the reference tokenizer, so every term is lowercase, has at least 2
\* characters, is no stop word and holds no whitespace, comma or semicolon.
C17_MatchesReferenceTokenizer ==
    (pc = "tokenized" /\ ~EveryTokenDropped(req.queryText)) =>
        /\ terms = RefTerms(req.queryText)
        /\ \A i \in DOMAIN terms :
              /\ terms[i] = ToLower(terms[i])
              /\ Len(terms[i]) >= 2
              /\ terms[i] \notin stopWords
              /\ \A j \in DOMAIN terms[i] : ~RefSeparator(terms[i][j])


\* C18: for every model of the allow-list and every accepted request, every
\* column the dispatched statement names, in its projection, its WHERE filter
\* and its ORDER BY expression, is an allow-listed column of that model.
C18_EveryColumnAllowListed ==
    dbCalls >= 1 =>
        /\ query.from \in DOMAIN allowed
        /\ (Range(query.selectCols) \ { "*" }) \subseteq AllowedCols(query.from)
        /\ QueryColumns(query) \subseteq AllowedCols(query.from)

===========================================================================
